---------------------------- MODULE Spec2Model ----------------------------
(***************************************************************************)
(* A model of the credit-card spending analyzer (src/spending_analyzer.py): *)
(* the SpendingAnalyzer object (self.data, self.folder_path), its loader    *)
(* load_csvs_from_folder / process_data, the categorizer and the four       *)
(* aggregate queries.                                                       *)
(*                                                                          *)
(* Representation.                                                          *)
(*  - A Python string is a tuple of one-character strings, so that          *)
(*    str.upper() and the `in` substring test are computed, not assumed.    *)
(*  - A money value is an integer number of mills (1/1000 of a dollar);     *)
(*    .round(2) rounds to a multiple of 10 mills, half to even, as NumPy    *)
(*    does.  Binary floating point error is not modelled.                   *)
(*  - A cell of a DataFrame is a record [k, v]: k is the kind of value      *)
(*    ("float", "str", "nan", "text", "ts", "nat") and v a tuple holding    *)
(*    it.  NaN / NaT cells arise where pd.concat fills a column that one    *)
(*    of the files does not have.                                           *)
(*  - A date text "MM/DD/YYYY" is <<mm, dd, yyyy>>; a parsed Timestamp is   *)
(*    <<yyyy, mm, dd>>; the '%Y-%m' month key is <<yyyy, mm>>.              *)
(***************************************************************************)
EXTENDS Integers, Sequences, FiniteSets, TLC

\* Bounds of the model.
MaxEntries == 4
MaxLen == 11

VARIABLES
  folder,           \* the CSV files of ./data on disk, in glob order
  gui_folder_path,  \* SpendingAnalyzerGUI.folder_path
  data,             \* SpendingAnalyzer.data
  folder_path,      \* SpendingAnalyzer.folder_path
  raised,           \* the exception the last load_csvs_from_folder call raised
  ret,              \* the value the last load_csvs_from_folder call returned
  loaded,           \* the files the last load_csvs_from_folder call found
  reload,           \* did self.data hold a frame when that call began?
  shown,            \* the message boxes the last load_data call showed
  payee,            \* the argument of the last direct categorize_transaction call
  category          \* its result

vars ==
  <<folder, gui_folder_path, data, folder_path, raised, ret, loaded, reload, shown,
    payee, category>>

-----------------------------------------------------------------------------
(* Strings *)

LowerCase == <<"a","b","c","d","e","f","g","h","i","j","k","l","m","n","o","p","q","r","s","t","u","v","w","x","y","z">>
UpperCase == <<"A","B","C","D","E","F","G","H","I","J","K","L","M","N","O","P","Q","R","S","T","U","V","W","X","Y","Z">>

\* The characters of the model in code point order (Python compares str so).
CodePoints == <<" ","#","-","0","1","2","3","4","5","6","7","8","9","A","B","C","D","E","F","G","H","I","J","K","L","M","N","O","P","Q","R","S","T","U","V","W","X","Y","Z","a","b","c","d","e","f","g","h","i","j","k","l","m","n","o","p","q","r","s","t","u","v","w","x","y","z">>

UpperChar(c) ==
  IF \E i \in 1..Len(LowerCase) : LowerCase[i] = c
    THEN UpperCase[CHOOSE i \in 1..Len(LowerCase) : LowerCase[i] = c]
    ELSE c

\* str.upper()
RECURSIVE upper(_)
upper(s) == IF s = <<>> THEN <<>> ELSE <<UpperChar(Head(s))>> \o upper(Tail(s))

\* pattern in s
Contains(pattern, s) ==
  \E i \in 0..(Len(s) - Len(pattern)) :
    \A j \in 1..Len(pattern) : s[i + j] = pattern[j]

Ord(c) == CHOOSE i \in 1..Len(CodePoints) : CodePoints[i] = c

\* s < t for Python str
RECURSIVE StrLess(_, _)
StrLess(s, t) ==
  IF t = <<>> THEN FALSE
  ELSE IF s = <<>> THEN TRUE
  ELSE IF Ord(Head(s)) # Ord(Head(t)) THEN Ord(Head(s)) < Ord(Head(t))
  ELSE StrLess(Tail(s), Tail(t))

-----------------------------------------------------------------------------
(* SpendingAnalyzer.__init__ *)

category_patterns ==
  << [name |-> "Groceries",
      patterns |-> << <<"W","A","L","-","M","A","R","T">>,
                      <<"T","H","I","A","R","A">>,
                      <<"S","O","B","E","Y","S">>,
                      <<"I","Q","B","A","L"," ","F","O","O","D","S">>,
                      <<"V","O","I","L","A">>,
                      <<"F","R","I","L","L","S">> >>],
     [name |-> "Utilities",
      patterns |-> << <<"H","Y","D","R","O">>,
                      <<"R","E","L","I","A","N","C","E">>,
                      <<"C","O","G","E","C","O">>,
                      <<"R","O","G","E","R","S">>,
                      <<"P","A","Y","M","E","N","T","U","S">>,
                      <<"E","N","B","R","I","D","G","E">>,
                      <<"K","U","B","R","A">> >>],
     [name |-> "Subscriptions",
      patterns |-> << <<"N","E","T","F","L","I","X">>,
                      <<"P","R","I","M","E">>,
                      <<"L","A"," ","F","I","T","N","E","S","S">>,
                      <<"G","O","O","G","L","E">> >>],
     [name |-> "Charity",
      patterns |-> << <<"H","U","M","A","N"," ","A","P","P","E","A","L">> >>],
     [name |-> "Transporation",
      patterns |-> << <<"U","B","E","R">>,
                      <<"P","R","E","S","T","O">> >>],
     [name |-> "Food",
      patterns |-> << <<"T","S","T">>,
                      <<"S","Q">>,
                      <<"P","O","P","E","Y","E","S">>,
                      <<"M","A","R","Y">>,
                      <<"T","E","X","A","S">>,
                      <<"C","H","I","C","K","E","N">>,
                      <<"C","O","F","F","E","E">>,
                      <<"T","E","A">>,
                      <<"T","I","M"," ","H","O","R","T","O","N","S">>,
                      <<"C","H","A">>,
                      <<"P","I","Z","Z","A">> >>],
     [name |-> "Gas",
      patterns |-> << <<"P","e","t","r","o">>,
                      <<"E","s","s","o">> >>] >>

\* "for category, patterns in self.category_patterns.items()": does any
\* pattern of the i-th category occur in s?
AnyPattern(i, s) ==
  \E k \in 1..Len(category_patterns[i].patterns) :
    Contains(category_patterns[i].patterns[k], s)

RECURSIVE CategorizeFrom(_, _)
CategorizeFrom(i, payee_upper) ==
  IF i > Len(category_patterns) THEN "Other"
  ELSE IF AnyPattern(i, payee_upper) THEN category_patterns[i].name
  ELSE CategorizeFrom(i + 1, payee_upper)

\* A categorizer that keeps the last matching category instead of returning
\* at the first.
RECURSIVE LastMatchFrom(_, _, _)
LastMatchFrom(i, payee_upper, found) ==
  IF i > Len(category_patterns) THEN found
  ELSE LastMatchFrom(i + 1, payee_upper,
         IF AnyPattern(i, payee_upper) THEN category_patterns[i].name ELSE found)

categorize_last_match(p) == LastMatchFrom(1, upper(p), "Other")

categorize_transaction(p) == CategorizeFrom(1, upper(p))

-----------------------------------------------------------------------------
(* DataFrames *)

NaN == [k |-> "nan", v |-> <<>>]
Float(x) == [k |-> "float", v |-> <<x>>]
Str(s) == [k |-> "str", v |-> <<s>>]
Timestamp(d) == [k |-> "ts", v |-> <<d>>]
Val(c) == c.v[1]

\* A row holds a cell for every column the program ever uses; a column that
\* the frame does not have (not in its cols) holds NaN there.
BlankRow ==
  [Posted_Date |-> NaN, Payee |-> NaN, Amount |-> NaN, Type |-> NaN,
   Abs_Amount |-> NaN, Category |-> NaN, Month |-> NaN]

None == [isNone |-> TRUE, cols |-> {}, rows |-> <<>>]
DataFrame(cols, rows) == [isNone |-> FALSE, cols |-> cols, rows |-> rows]

\* The value a call returned or the exception it raised.
Returned(x) == [raised |-> "none", val |-> <<x>>]
Raise(e) == [raised |-> e, val |-> <<>>]

-----------------------------------------------------------------------------
(* The folder on disk *)

RequiredColumns == {"Posted Date", "Payee", "Amount"}

\* The headers a CSV file of the model may have: all the columns, or all but
\* one of them.
Headers == {RequiredColumns} \cup {RequiredColumns \ {c} : c \in RequiredColumns}

WAL_MART == <<"W","a","l","-","M","a","r","t">>
PETRO == <<"P","E","T","R","O">>
TEA_UBER == <<"t","e","a"," ","U","b","e","r">>
XYZ == <<"x","y","z">>

\* The lines a CSV file of the model may hold: the date text, the payee and
\* the amount cell as pd.read_csv parses it.
CsvLines ==
  { <<<<1, 15, 2024>>, WAL_MART, Float(-45005)>>,
    <<<<1, 15, 2024>>, PETRO, Float(-1004)>>,
    <<<<2, 3, 2024>>, TEA_UBER, Float(-2500)>>,
    <<<<2, 3, 2024>>, XYZ, Float(3000)>>,
    <<<<1, 20, 2024>>, XYZ, Float(0)>>,
    <<<<2, 30, 2024>>, XYZ, Float(-100)>>,
    <<<<1, 20, 2024>>, XYZ, Str(<<"n","/","a">>)>> }

\* The row pd.read_csv makes of a line in a file with the header cols.
CsvRow(cols, line) ==
  [BlankRow EXCEPT
     !.Posted_Date = IF "Posted Date" \in cols THEN Str(line[1]) ELSE NaN,
     !.Payee = IF "Payee" \in cols THEN Str(line[2]) ELSE NaN,
     !.Amount = IF "Amount" \in cols THEN line[3] ELSE NaN]

CsvFile(cols) == [readable |-> TRUE, cols |-> cols, rows |-> <<>>]
\* A file pd.read_csv raises on (a zero-byte file: EmptyDataError).
EmptyFile == [readable |-> FALSE, cols |-> {}, rows |-> <<>>]

\* The size of the folder: its files and their lines.
RECURSIVE Entries(_)
Entries(files) ==
  IF files = <<>> THEN 0 ELSE 1 + Len(Head(files).rows) + Entries(Tail(files))

-----------------------------------------------------------------------------
(* load_csvs_from_folder and process_data *)

\* pd.read_csv(csv_file) of a readable file
read_csv(file) == DataFrame(file.cols, file.rows)

\* pd.concat(all_data, ignore_index=True): the union of the columns, the rows
\* in order, NaN where a frame lacks a column.
Reindex(df) ==
  [i \in 1..Len(df.rows) |->
     [df.rows[i] EXCEPT
        !.Posted_Date = IF "Posted Date" \in df.cols THEN @ ELSE NaN,
        !.Payee = IF "Payee" \in df.cols THEN @ ELSE NaN,
        !.Amount = IF "Amount" \in df.cols THEN @ ELSE NaN]]

RECURSIVE ConcatRows(_)
ConcatRows(all_data) ==
  IF all_data = <<>> THEN <<>>
  ELSE Reindex(Head(all_data)) \o ConcatRows(Tail(all_data))

concat(all_data) ==
  DataFrame(UNION {all_data[i].cols : i \in 1..Len(all_data)}, ConcatRows(all_data))

IsLeap(y) == (y % 4 = 0 /\ y % 100 # 0) \/ y % 400 = 0

DaysInMonth(y, m) ==
  IF m = 2 THEN (IF IsLeap(y) THEN 29 ELSE 28)
  ELSE IF m \in {4, 6, 9, 11} THEN 30 ELSE 31

\* Does the text <<mm, dd, yyyy>> match format='%m/%d/%Y'?
ValidDate(t) ==
  /\ t[1] \in 1..12
  /\ t[2] \in 1..DaysInMonth(t[3], t[1])

\* pd.to_datetime of one cell: a text is parsed, a Timestamp stays, NaN
\* becomes NaT.
to_datetime(c) ==
  IF c.k = "str" THEN Timestamp(<<Val(c)[3], Val(c)[1], Val(c)[2]>>)
  ELSE IF c.k = "ts" THEN c ELSE NaN

\* lambda x: 'Payment' if x > 0 else 'Expense'  (nan > 0 is False)
TypeOf(amount) ==
  IF amount.k = "float" /\ Val(amount) > 0 THEN Str("Payment") ELSE Str("Expense")

\* abs() of one cell
Abs(amount) ==
  IF amount.k = "float"
    THEN Float(IF Val(amount) < 0 THEN 0 - Val(amount) ELSE Val(amount))
    ELSE NaN

\* .dt.strftime('%Y-%m') of one cell
strftime_Ym(c) == IF c.k = "ts" THEN Str(<<Val(c)[1], Val(c)[2]>>) ELSE NaN

DateLess(a, b) ==
  \/ a[1] < b[1]
  \/ a[1] = b[1] /\ a[2] < b[2]
  \/ a[1] = b[1] /\ a[2] = b[2] /\ a[3] < b[3]

\* The order sort_values('Posted Date') puts two cells in: NaT last.
CellBefore(a, b) ==
  /\ a.k = "ts"
  /\ b.k = "ts" => DateLess(Val(a), Val(b))

\* sort_values('Posted Date'), rows with equal dates kept in their order
\* (NumPy sorts an array this short by insertion).
RECURSIVE Insert(_, _)
Insert(sorted, r) ==
  IF sorted = <<>> THEN <<r>>
  ELSE IF CellBefore(r.Posted_Date, Head(sorted).Posted_Date)
    THEN <<r>> \o sorted
    ELSE <<Head(sorted)>> \o Insert(Tail(sorted), r)

RECURSIVE SortFrom(_, _, _)
SortFrom(rows, i, acc) ==
  IF i > Len(rows) THEN acc ELSE SortFrom(rows, i + 1, Insert(acc, rows[i]))

sort_values(rows) == SortFrom(rows, 1, <<>>)

\* self.data[self.data['Type'] == 'Expense']
ExpensesOnly(rows) == SelectSeq(rows, LAMBDA r : r.Type = Str("Expense"))

\* One row after the assignment of line 45, of lines 46-47 and of lines 48-49.
WithDate(r) == [r EXCEPT !.Posted_Date = to_datetime(@)]
WithAmounts(r) ==
  [WithDate(r) EXCEPT !.Type = TypeOf(r.Amount), !.Abs_Amount = Abs(r.Amount)]
Processed(r) ==
  [WithAmounts(r) EXCEPT
     !.Category = Str(categorize_transaction(Val(r.Payee))),
     !.Month = strftime_Ym(to_datetime(r.Posted_Date))]

RECURSIVE WithDates(_)
WithDates(rows) ==
  IF rows = <<>> THEN <<>> ELSE <<WithDate(Head(rows))>> \o WithDates(Tail(rows))

RECURSIVE AllWithAmounts(_)
AllWithAmounts(rows) ==
  IF rows = <<>> THEN <<>> ELSE <<WithAmounts(Head(rows))>> \o AllWithAmounts(Tail(rows))

RECURSIVE AllProcessed(_)
AllProcessed(rows) ==
  IF rows = <<>> THEN <<>> ELSE <<Processed(Head(rows))>> \o AllProcessed(Tail(rows))

\* process_data on the frame df: the frame self.data ends as, and the
\* exception raised, if any.  Each column assignment either completes or
\* raises and leaves self.data as the assignments before it made it.
process_data(df) ==
  LET n == Len(df.rows)
  IN
  IF "Posted Date" \notin df.cols THEN [data |-> df, raised |-> "KeyError"]
  ELSE IF \E i \in 1..n :
            df.rows[i].Posted_Date.k = "str" /\ ~ValidDate(Val(df.rows[i].Posted_Date))
    THEN [data |-> df, raised |-> "ValueError"]
  ELSE IF "Amount" \notin df.cols
    THEN [data |-> DataFrame(df.cols, WithDates(df.rows)), raised |-> "KeyError"]
  ELSE IF \E i \in 1..n : df.rows[i].Amount.k = "str"
    THEN [data |-> DataFrame(df.cols, WithDates(df.rows)), raised |-> "TypeError"]
  ELSE IF "Payee" \notin df.cols
    THEN [data |-> DataFrame(df.cols \cup {"Type", "Abs_Amount"}, AllWithAmounts(df.rows)),
          raised |-> "KeyError"]
  ELSE IF \E i \in 1..n : df.rows[i].Payee.k = "nan"
    THEN [data |-> DataFrame(df.cols \cup {"Type", "Abs_Amount"}, AllWithAmounts(df.rows)),
          raised |-> "AttributeError"]
  ELSE [data |-> DataFrame(df.cols \cup {"Type", "Abs_Amount", "Category", "Month"},
                           ExpensesOnly(sort_values(AllProcessed(df.rows)))),
        raised |-> "none"]

-----------------------------------------------------------------------------
(* The aggregate queries *)

\* num / den rounded to the nearest integer, a half to the even one
\* (num >= 0, den > 0).
RoundDiv(num, den) ==
  LET q == num \div den
      r == num % den
  IN IF 2 * r < den THEN q
     ELSE IF 2 * r > den THEN q + 1
     ELSE IF q % 2 = 0 THEN q ELSE q + 1

\* .round(2) of num / den mills, in mills.
Round2Frac(num, den) == 10 * RoundDiv(num, den * 10)
Round2(x) == Round2Frac(x, 1)

\* ['Abs_Amount'].sum(): NaN is skipped.
RECURSIVE SumAbs(_)
SumAbs(rows) ==
  IF rows = <<>> THEN 0
  ELSE (IF Head(rows).Abs_Amount.k = "float" THEN Val(Head(rows).Abs_Amount) ELSE 0)
       + SumAbs(Tail(rows))

MonthLess(a, b) == a[1] < b[1] \/ (a[1] = b[1] /\ a[2] < b[2])

\* The group keys of groupby('Month'): NaN is no key.
MonthKeys(rows) ==
  {Val(rows[i].Month) : i \in {j \in 1..Len(rows) : rows[j].Month.k = "str"}}

RECURSIVE SortedMonths(_)
SortedMonths(S) ==
  IF S = {} THEN <<>>
  ELSE LET m == CHOOSE x \in S : \A y \in S : y = x \/ MonthLess(x, y)
       IN <<m>> \o SortedMonths(S \ {m})

InMonth(rows, m) == SelectSeq(rows, LAMBDA r : r.Month = Str(m))

HasColumns(d, cols) == cols \subseteq d.cols

\* A Series is a sequence of [key, value].
get_monthly_spending(d) ==
  IF d.isNone THEN Raise("AttributeError")
  ELSE IF ~HasColumns(d, {"Month", "Abs_Amount"}) THEN Raise("KeyError")
  ELSE LET index == SortedMonths(MonthKeys(d.rows))
       IN Returned([i \in 1..Len(index) |->
            [key |-> index[i], value |-> Round2(SumAbs(InMonth(d.rows, index[i])))]])

RECURSIVE SumValues(_)
SumValues(series) ==
  IF series = <<>> THEN 0 ELSE Head(series).value + SumValues(Tail(series))

\* An average that passes the nan of an empty Series on to the caller.
average_nan_on_empty(d) ==
  LET monthly_totals == get_monthly_spending(d)
  IN IF monthly_totals.raised # "none" THEN monthly_totals
     ELSE IF Len(monthly_totals.val[1]) = 0 THEN Returned(NaN)
     ELSE Returned(Round2Frac(SumValues(monthly_totals.val[1]),
                              Len(monthly_totals.val[1])))

\* monthly_totals.mean().round(2).  The mean of an empty Series is the
\* Python float nan (pandas nanops returns np.nan for an empty array), which
\* has no round method: AttributeError.
get_monthly_average(d) ==
  LET monthly_totals == get_monthly_spending(d)
  IN IF monthly_totals.raised # "none" THEN monthly_totals
     ELSE IF Len(monthly_totals.val[1]) = 0 THEN Raise("AttributeError")
     ELSE Returned(Round2Frac(SumValues(monthly_totals.val[1]),
                              Len(monthly_totals.val[1])))

\* The category names in the order a sorted column Index holds them.
SortedCategoryNames ==
  <<"Charity", "Food", "Gas", "Groceries", "Other", "Subscriptions",
    "Transporation", "Utilities">>

InCell(rows, m, c) ==
  SelectSeq(rows, LAMBDA r : r.Month = Str(m) /\ r.Category = Str(c))

\* NaN is skipped by DataFrame.sum(axis=1).
RECURSIVE SumCells(_)
SumCells(cells) ==
  IF cells = <<>> THEN 0
  ELSE (IF Head(cells).k = "float" THEN Val(Head(cells)) ELSE 0) + SumCells(Tail(cells))

\* The pivot before the TOTAL column: one row per month, one column per
\* category that occurs, fill_value where a month has no row of a category.
pivot_table(rows, fill_value) ==
  LET index == SortedMonths(MonthKeys(rows))
      columns == SelectSeq(SortedCategoryNames,
                   LAMBDA c : \E i \in 1..Len(rows) :
                                rows[i].Month.k = "str" /\ rows[i].Category = Str(c))
  IN [index |-> index,
      columns |-> columns,
      values |-> [i \in 1..Len(index) |-> [j \in 1..Len(columns) |->
                    IF InCell(rows, index[i], columns[j]) = <<>> THEN fill_value
                    ELSE Float(Round2(SumAbs(InCell(rows, index[i], columns[j]))))]]]

\* The TOTAL column taken from the unrounded amounts of the month.
with_total_unrounded(rows) ==
  LET pivot == pivot_table(rows, Float(0))
  IN [index |-> pivot.index,
      columns |-> Append(pivot.columns, "TOTAL"),
      values |-> [i \in 1..Len(pivot.index) |->
                    Append(pivot.values[i],
                           Float(Round2(SumAbs(InMonth(rows, pivot.index[i])))))]]

\* pivot['TOTAL'] = pivot.sum(axis=1)
with_total(rows) ==
  LET pivot == pivot_table(rows, Float(0))
  IN [index |-> pivot.index,
      columns |-> Append(pivot.columns, "TOTAL"),
      values |-> [i \in 1..Len(pivot.index) |->
                    Append(pivot.values[i], Float(SumCells(pivot.values[i])))]]

\* A frame without rows pivots to an empty table, which gets the TOTAL column.
get_category_by_month(d) ==
  IF d.isNone THEN Raise("AttributeError")
  ELSE IF ~HasColumns(d, {"Month", "Category", "Abs_Amount"}) THEN Raise("KeyError")
  ELSE Returned(with_total(d.rows))

\* ['Abs_Amount'].mean(): the sum over the count of the cells that are not
\* NaN, kept as the pair <<sum, count>>; NaN when there is none.
MeanAbs(rows) ==
  LET count == Len(SelectSeq(rows, LAMBDA r : r.Abs_Amount.k = "float"))
  IN IF count = 0 THEN NaN ELSE [k |-> "float", v |-> <<SumAbs(rows), count>>]

Dates(rows) ==
  {Val(rows[i].Posted_Date) : i \in {j \in 1..Len(rows) : rows[j].Posted_Date.k = "ts"}}

MinDate(S) == CHOOSE x \in S : \A y \in S : y = x \/ DateLess(x, y)
MaxDate(S) == CHOOSE x \in S : \A y \in S : y = x \/ DateLess(y, x)

\* The dict entries are evaluated in the order written; min() of no dates
\* is NaT, whose strftime raises ValueError.
get_summary_stats(d) ==
  IF d.isNone THEN Raise("TypeError")
  ELSE IF ~HasColumns(d, {"Abs_Amount"}) THEN Raise("KeyError")
  ELSE LET monthly_average == get_monthly_average(d)
       IN IF monthly_average.raised # "none" THEN monthly_average
          ELSE IF Dates(d.rows) = {} THEN Raise("ValueError")
          ELSE Returned(
            [total_expenses |-> SumAbs(d.rows),
             num_transactions |-> Len(d.rows),
             avg_transaction |-> MeanAbs(d.rows),
             monthly_average |-> monthly_average.val[1],
             num_months |-> Cardinality(MonthKeys(d.rows)),
             date_range |-> <<MinDate(Dates(d.rows)), MaxDate(Dates(d.rows))>>])

PayeeKeys(rows) ==
  {Val(rows[i].Payee) : i \in {j \in 1..Len(rows) : rows[j].Payee.k = "str"}}

RECURSIVE SortedPayees(_)
SortedPayees(S) ==
  IF S = {} THEN <<>>
  ELSE LET p == CHOOSE x \in S : \A y \in S : y = x \/ StrLess(x, y)
       IN <<p>> \o SortedPayees(S \ {p})

\* sort_values(ascending=False), equal sums kept in group order.
RECURSIVE InsertDescending(_, _)
InsertDescending(sorted, e) ==
  IF sorted = <<>> THEN <<e>>
  ELSE IF e.value > Head(sorted).value THEN <<e>> \o sorted
  ELSE <<Head(sorted)>> \o InsertDescending(Tail(sorted), e)

RECURSIVE SortDescendingFrom(_, _, _)
SortDescendingFrom(series, i, acc) ==
  IF i > Len(series) THEN acc
  ELSE SortDescendingFrom(series, i + 1, InsertDescending(acc, series[i]))

head(series, n) == SubSeq(series, 1, IF Len(series) < n THEN Len(series) ELSE n)

get_top_merchants(d, n) ==
  IF d.isNone THEN Raise("AttributeError")
  ELSE IF ~HasColumns(d, {"Payee", "Abs_Amount"}) THEN Raise("KeyError")
  ELSE LET index == SortedPayees(PayeeKeys(d.rows))
           sums == [i \in 1..Len(index) |->
                      [key |-> index[i],
                       value |-> SumAbs(SelectSeq(d.rows, LAMBDA r : r.Payee = Str(index[i])))]]
           top == head(SortDescendingFrom(sums, 1, <<>>), n)
       IN Returned([i \in 1..Len(top) |->
            [key |-> top[i].key, value |-> Round2(top[i].value)]])

-----------------------------------------------------------------------------
(* The state machine *)

Init ==
  /\ folder = <<>>
  /\ gui_folder_path = "None"
  /\ data = None
  /\ folder_path = "None"
  /\ raised = "not called"
  /\ ret = <<>>
  /\ loaded = <<>>
  /\ reload = FALSE
  /\ shown = <<>>
  /\ payee = <<>>
  /\ category = "not called"

analyzer == <<data, folder_path, raised, ret, loaded, reload>>
gui == <<gui_folder_path, shown>>
categorizer == <<payee, category>>

\* The environment puts a new CSV file with the header cols into the folder.
CreateFile(cols) ==
  /\ Entries(folder) < MaxEntries
  /\ folder' = Append(folder, CsvFile(cols))
  /\ UNCHANGED <<analyzer, gui, categorizer>>

\* The environment puts a file into the folder that pd.read_csv cannot read.
CreateEmptyFile ==
  /\ Entries(folder) < MaxEntries
  /\ folder' = Append(folder, EmptyFile)
  /\ UNCHANGED <<analyzer, gui, categorizer>>

\* The environment writes one more line to the newest file.
AppendLine(line) ==
  /\ folder # <<>>
  /\ folder[Len(folder)].readable
  /\ Entries(folder) < MaxEntries
  /\ folder' = [folder EXCEPT ![Len(folder)].rows =
                  Append(@, CsvRow(folder[Len(folder)].cols, line))]
  /\ UNCHANGED <<analyzer, gui, categorizer>>

\* load_csvs_from_folder on the files csv_files when self.data is old and
\* all_data starts as first: what self.data ends as, the exception raised
\* and the value returned.
load_from(old, csv_files, first) ==
  IF csv_files = <<>> THEN [data |-> old, raised |-> "ValueError", ret |-> <<>>]
  ELSE IF \E i \in 1..Len(csv_files) : ~csv_files[i].readable
    THEN [data |-> old, raised |-> "EmptyDataError", ret |-> <<>>]
  ELSE LET all_data == first \o [i \in 1..Len(csv_files) |-> read_csv(csv_files[i])]
           p == process_data(concat(all_data))
       IN [data |-> p.data,
           raised |-> p.raised,
           ret |-> IF p.raised = "none" THEN <<Len(csv_files)>> ELSE <<>>]

\* A loader that returns the number of rows it kept.
load_returning_rows(old, csv_files) ==
  LET call == load_from(old, csv_files, <<>>)
  IN [call EXCEPT !.ret = IF call.raised = "none" THEN <<Len(call.data.rows)>> ELSE <<>>]

\* A loader that concatenates the new files to the frame it holds.
load_accumulating(old, csv_files) ==
  load_from(old, csv_files, IF old.isNone THEN <<>> ELSE <<old>>)

\* all_data = []
load_csvs_from_folder(old, csv_files) == load_from(old, csv_files, <<>>)

\* update_transactions formats every row; a row whose date is NaT raises
\* (NaT has no strftime: ValueError).
update_transactions(d) ==
  IF \E i \in 1..Len(d.rows) : d.rows[i].Posted_Date.k # "ts"
    THEN Raise("ValueError") ELSE Returned(Len(d.rows))

\* SpendingAnalyzerGUI.select_folder, the user choosing the folder.
SelectFolder ==
  /\ gui_folder_path' = "./data"
  /\ UNCHANGED <<folder, analyzer, shown, categorizer>>

\* The first exception among the calls the update_* methods make, in the
\* order load_data makes them; "none" when there is none.
FirstRaised(results) ==
  IF \A i \in 1..Len(results) : results[i].raised = "none" THEN "none"
  ELSE results[CHOOSE i \in 1..Len(results) :
                 /\ results[i].raised # "none"
                 /\ \A j \in 1..(i - 1) : results[j].raised = "none"].raised

update_all(d) ==
  FirstRaised(<<get_summary_stats(d), get_monthly_spending(d), get_category_by_month(d),
                get_monthly_average(d), get_top_merchants(d, 20), update_transactions(d)>>)

\* SpendingAnalyzerGUI.load_data.  The text and tree widgets the update_*
\* methods fill are not part of the state: only whether filling them raised.
LoadData ==
  IF gui_folder_path = "None"
    THEN /\ shown' = <<"showwarning">>
         /\ UNCHANGED <<folder, gui_folder_path, analyzer, categorizer>>
    ELSE
      LET call == load_csvs_from_folder(data, folder)
      IN /\ folder_path' = "./data"
         /\ loaded' = folder
         /\ reload' = ~data.isNone
         /\ data' = call.data
         /\ raised' = call.raised
         /\ ret' = call.ret
         /\ shown' = IF call.raised # "none" THEN <<"showerror">>
                     ELSE IF update_all(call.data) = "none" THEN <<"showinfo">>
                     ELSE <<"showinfo", "showerror">>
         /\ UNCHANGED <<folder, gui_folder_path, categorizer>>

Next ==
  \/ \E cols \in Headers : CreateFile(cols)
  \/ CreateEmptyFile
  \/ \E line \in CsvLines : AppendLine(line)
  \/ SelectFolder
  \/ LoadData

Spec == Init /\ [][Next]_vars

\* Direct calls of categorize_transaction.
Words ==
  { <<"W","A","L","-","M","A","R","T">>, <<"w","a","l","-","m","a","r","t">>,
    <<"P","i","z","z","a">>, <<"P","E","T","R","O">>, <<"P","e","t","r","o">>,
    <<"e","s","s","o">>, <<"U","b","e","r">>, <<"T","E","A">>, <<"x","y","z">>,
    <<" ","#","1">>, <<"h","y","d","r","o">> }

Categorize(p) ==
  /\ Len(p) <= MaxLen
  /\ payee' = p
  /\ category' = categorize_transaction(p)
  /\ UNCHANGED <<folder, analyzer, gui>>

NextCat == \E w \in Words : Categorize(payee \o w)

SpecCat == Init /\ [][NextCat]_vars

-----------------------------------------------------------------------------
(* The claims *)

\* The lines of the files, in file order.
RECURSIVE FileRows(_)
FileRows(files) ==
  IF files = <<>> THEN <<>> ELSE Head(files).rows \o FileRows(Tail(files))

IsPayment(amount) == amount.k = "float" /\ Val(amount) > 0

Count(rows, r) == Len(SelectSeq(rows, LAMBDA x : x = r))

\* C1: a load_csvs_from_folder call that raises leaves self.data as it was
\* before the call.
C1_FailedLoadKeepsData ==
  [][raised' \notin {"none", "not called"} => data' = data]_vars

\* C2 as claimed: a successful load returns the number of rows of the
\* working dataset.
C2_ReturnsTransactionCount ==
  raised = "none" => ret = <<Len(data.rows)>>

\* C2 as amended: a successful load returns the number of CSV files it found,
\* and the working dataset holds as many rows as the files have lines that
\* are no Payment (amount > 0).
C2_ReturnsFileCount ==
  raised = "none" =>
    /\ ret = <<Len(loaded)>>
    /\ Len(data.rows) =
         Len(SelectSeq(FileRows(loaded), LAMBDA r : ~IsPayment(r.Amount)))

C2_Witness ==
  /\ raised = "none"
  /\ ret = <<2>>
  /\ Len(FileRows(loaded)) = 2
  /\ Len(data.rows) = 1

\* C3: a row is an Expense only if its amount is below 0, so a row with the
\* amount 0 is never in the working dataset after a load.
C3_ExpenseIffNegative ==
  raised = "none" =>
    \A i \in 1..Len(data.rows) :
      data.rows[i].Type = Str("Expense") /\ data.rows[i].Amount.k = "float"
        => Val(data.rows[i].Amount) < 0

\* C4: a load that found a file lacking a required column fails, and no row
\* of a file without the Amount column reaches the working dataset.  Stated
\* for the files that hold at least one line.
C4_MissingColumnFailsLoad ==
  raised = "none" =>
    /\ \A i \in 1..Len(loaded) :
         loaded[i].rows # <<>> => RequiredColumns \subseteq loaded[i].cols
    /\ \A i \in 1..Len(data.rows) : data.rows[i].Amount.k # "nan"

\* The categories with a pattern that occurs in s.
Matching(s) == {i \in 1..Len(category_patterns) : AnyPattern(i, s)}

\* C5: the category returned is the earliest one of the rule table with a
\* pattern that occurs in the uppercased payee, and it is 'Other' exactly
\* when there is no such category.
C5_FirstMatchWins ==
  category # "not called" =>
    LET M == Matching(upper(payee))
    IN IF M = {} THEN category = "Other"
       ELSE /\ category = category_patterns[CHOOSE i \in M : \A j \in M : i <= j].name
            /\ category # "Other"

C5_Witness ==
  /\ category = "Groceries"
  /\ \E i \in Matching(upper(payee)) : category_patterns[i].name = "Food"

\* Does a pattern of the i-th category occur in s, letter case ignored?
MatchesIgnoringCase(i, s) ==
  \E k \in 1..Len(category_patterns[i].patterns) :
    Contains(upper(category_patterns[i].patterns[k]), upper(s))

\* C6: a payee that contains a pattern of a category in any letter case, and
\* no pattern of an earlier category, is given that category.
C6_CaseInsensitive ==
  category # "not called" =>
    \A i \in 1..Len(category_patterns) :
      /\ MatchesIgnoringCase(i, payee)
      /\ \A j \in 1..(i - 1) : ~MatchesIgnoringCase(j, payee)
      => category = category_patterns[i].name

\* C7: after a load, get_monthly_average is the mean of the values of
\* get_monthly_spending, to the cent (a multiple of 10 mills within 5 mills
\* of the mean), and with no month at all it raises.
C7_MeanOrError ==
  raised = "none" =>
    LET monthly_totals == get_monthly_spending(data)
        average == get_monthly_average(data)
        n == Len(monthly_totals.val[1])
        diff == average.val[1] * n - SumValues(monthly_totals.val[1])
    IN /\ monthly_totals.raised = "none"
       /\ IF n = 0 THEN average.raised # "none"
          ELSE /\ average.raised = "none"
               /\ average.val[1] % 10 = 0
               /\ diff <= 5 * n
               /\ 0 - diff <= 5 * n

C7_Witness ==
  /\ raised = "none"
  /\ FileRows(loaded) # <<>>
  /\ data.rows = <<>>
  /\ get_monthly_average(data).raised = "AttributeError"
  /\ shown = <<"showinfo", "showerror">>

\* C8: after a successful load, however many loads came before it, the
\* working dataset is the one an analyzer just constructed makes of the same
\* files: the lines that are no Payment, each once, ordered by date.  The
\* aggregates are functions of self.data alone, so they too depend on the
\* last loaded files only, and loading the same files again changes nothing.
C8_DependsOnLastLoad ==
  raised = "none" =>
    LET fresh == load_csvs_from_folder(None, loaded)
        kept == SelectSeq(FileRows(loaded), LAMBDA r : ~IsPayment(r.Amount))
        line(r) == <<to_datetime(r.Posted_Date), r.Payee, r.Amount>>
        lines(rows) == [i \in 1..Len(rows) |-> line(rows[i])]
    IN /\ data = fresh.data
       /\ ret = fresh.ret
       /\ Len(data.rows) = Len(kept)
       /\ \A i \in 1..Len(kept) :
            Count(lines(data.rows), line(kept[i])) = Count(lines(kept), line(kept[i]))
       /\ \A i, j \in 1..Len(data.rows) :
            i < j => ~CellBefore(data.rows[j].Posted_Date, data.rows[i].Posted_Date)

C8_Witness ==
  /\ reload
  /\ raised = "none"
  /\ Len(data.rows) = 2
  /\ Len(FileRows(loaded)) = 3

RECURSIVE SumFirst(_, _)
SumFirst(cells, j) == IF j = 0 THEN 0 ELSE Val(cells[j]) + SumFirst(cells, j - 1)

\* C9: in the table of get_category_by_month, TOTAL is the last column, the
\* TOTAL of a month is the sum of the category cells of its row, and a
\* category with no transaction in a month has the cell 0.
C9_TotalIsRowSum ==
  raised = "none" =>
    LET result == get_category_by_month(data)
        table == result.val[1]
        n == Len(table.columns)
    IN /\ result.raised = "none"
       /\ n >= 1
       /\ table.columns[n] = "TOTAL"
       /\ \A j \in 1..(n - 1) : table.columns[j] # "TOTAL"
       /\ \A i \in 1..Len(table.index) :
            /\ Len(table.values[i]) = n
            /\ table.values[i][n] = Float(SumFirst(table.values[i], n - 1))
            /\ \A j \in 1..(n - 1) :
                 (\A k \in 1..Len(data.rows) :
                    ~(/\ data.rows[k].Month = Str(table.index[i])
                      /\ data.rows[k].Category = Str(table.columns[j])))
                 => table.values[i][j] = Float(0)

C9_Witness ==
  /\ raised = "none"
  /\ shown = <<"showinfo">>
  /\ LET table == get_category_by_month(data).val[1]
     IN /\ Len(table.index) = 2
        /\ Len(table.columns) = 3
        /\ \E i \in 1..2 : table.values[i][1] = Float(0) /\ Val(table.values[i][3]) > 0

\* C10: a load of files that hold lines, if it returns, leaves at least one
\* Expense in the working dataset, and get_summary_stats does not raise.
C10_LoadedMeansSummarizable ==
  raised = "none" /\ FileRows(loaded) # <<>> =>
    /\ data.rows # <<>>
    /\ get_summary_stats(data).raised = "none"

=============================================================================
